---- MODULE Spec2Model ----
(***************************************************************************)
(* A model of the remote-apis-sdks client tooling:                         *)
(*   - go/pkg/flags: NewClientFromFlags (flag-driven client options)       *)
(*   - go/pkg/tool:  the debugging operations of remotetool                *)
(*   - the chunker, file-metadata cache, tree flattener and CAS            *)
(*     dispatcher those packages call into.                                *)
(* Each component has its own specification over the shared variables; a   *)
(* specification leaves the variables of the other components at their     *)
(* initial (idle) value.                                                   *)
(***************************************************************************)
EXTENDS Integers, Sequences, FiniteSets, TLC

VARIABLES
    \* ---- go/pkg/flags ----
    CASConcurrency,      \* *CASConcurrency, the cas_concurrency flag
    RPCTimeouts,         \* the rpc_timeouts flag: map rpc name -> string
    TLSCACert,           \* *TLSCACert, the tls_ca_cert flag
    DefaultRPCTimeouts,  \* client.DefaultRPCTimeouts: map rpc name -> duration
    flagsRet,            \* outcome of the last NewClientFromFlags call
    \* ---- tree flattening ----
    tree,                \* the repb.Tree handed to flattenTree
    flat,                \* outcome of the last flattenTree call
    \* ---- go/pkg/tool ----
    disk,                \* the local file system: path -> <<"dir">> or a file's contents
    events,              \* the network calls and disk operations of the call, in order
    call,                \* the operation called, its arguments, its collaborators' outcomes
    ret,                 \* what the call returned
    \* ---- chunker ----
    chunker,             \* the Chunker: sizes, offset, exhaustion
    chunks,              \* the chunks next() produced since the last reset
    chunkErr,            \* the error of the last next() call
    \* ---- file metadata cache ----
    files,               \* the file system seen by the cache: path -> content, signature
    entries,             \* the cache's map: path -> entry
    walkers,             \* each walker's position in its current cache operation
    \* ---- CAS dispatcher ----
    concurrencyLimit,    \* the dispatcher's concurrency ceiling
    jobs,                \* each job's state and attempts
    dispatch             \* the state of the dispatch call

flagsVars == <<CASConcurrency, RPCTimeouts, TLSCACert, DefaultRPCTimeouts, flagsRet>>
treeVars == <<tree, flat>>
toolVars == <<disk, events, call, ret>>
chunkVars == <<chunker, chunks, chunkErr>>
cacheVars == <<files, entries, walkers>>
dispatchVars == <<concurrencyLimit, jobs, dispatch>>

vars == <<flagsVars, treeVars, toolVars, chunkVars, cacheVars, dispatchVars>>

\* A value standing for Go's nil / "not there".
None == "none"

\* All orders in which the elements of a finite set can be visited
\* (Go leaves the iteration order of a map unspecified).
Orders(S) == { f \in [1..Cardinality(S) -> S] : \A i, j \in 1..Cardinality(S) : f[i] = f[j] => i = j }

(***************************************************************************)
(* go/pkg/flags                                                            *)
(***************************************************************************)

\* Largest value of the cas_concurrency flag that is explored.
MaxConcurrency == 3

\* RPC names that can occur as keys of a timeout map.
Rpcs == {"default", "GetActionResult", "Execute"}

\* Strings given as values of the rpc_timeouts flag.
FlagStrings == {"500ms", "10s", "0", "bogus"}

\* time.ParseDuration on the strings above, in milliseconds.
ParseDuration(s) ==
    CASE s = "500ms" -> [err |-> None, d |-> 500]
      [] s = "10s"   -> [err |-> None, d |-> 10000]
      [] s = "0"     -> [err |-> None, d |-> 0]
      [] OTHER       -> [err |-> "time: invalid duration", d |-> 0]

\* The maps client.DefaultRPCTimeouts may hold (durations in milliseconds).
DefaultMaps ==
    { [r \in {"default"} |-> 20000],
      [r \in {"default", "Execute"} |-> IF r = "default" THEN 20000 ELSE 0] }

\* The values the rpc_timeouts flag may hold, the empty map included.
FlagMaps == UNION { [D -> FlagStrings] : D \in SUBSET Rpcs }

\* m[k] = v on a Go map.
MapSet(m, k, v) == [x \in (DOMAIN m) \cup {k} |-> IF x = k THEN v ELSE m[x]]

\* A seeded bug: the option carries one more than the flag.
CASConcurrencyOffByOne(n) == [name |-> "CASConcurrency", value |-> n + 1]

\* client.CASConcurrency(*CASConcurrency), the option appended first.
CASConcurrencyOpt(n) == [name |-> "CASConcurrency", value |-> n]

\* client.RPCTimeouts(timeouts).
RPCTimeoutsOpt(m) == [name |-> "RPCTimeouts", value |-> m]

\* The loop "for rpc, s := range RPCTimeouts": entries are visited in the
\* given order, the first value that does not parse ends the call.
RECURSIVE OverrideTimeouts(_, _, _, _)
OverrideTimeouts(timeouts, flagMap, order, i) ==
    IF i > Cardinality(DOMAIN flagMap)
    THEN [err |-> None, timeouts |-> timeouts]
    ELSE LET p == ParseDuration(flagMap[order[i]])
         IN  IF p.err # None
             THEN [err |-> p.err, timeouts |-> timeouts]
             ELSE OverrideTimeouts(MapSet(timeouts, order[i], p.d), flagMap, order, i + 1)

\* A seeded bug: the flag values are written first and the defaults copied
\* over them, so a default wins over the flag.
RECURSIVE DefaultsWin(_, _, _, _)
DefaultsWin(timeouts, flagMap, order, i) ==
    IF i > Cardinality(DOMAIN flagMap)
    THEN [err |-> None, timeouts |-> timeouts]
    ELSE LET p == ParseDuration(flagMap[order[i]])
         IN  IF p.err # None
             THEN [err |-> p.err, timeouts |-> timeouts]
             ELSE DefaultsWin(IF order[i] \in DOMAIN timeouts
                                 THEN timeouts
                                 ELSE MapSet(timeouts, order[i], p.d),
                              flagMap, order, i + 1)

\* A seeded bug: a default is never overridden by its flag.
MergeDefaultsWin(defaults, flagMap, order) ==
    DefaultsWin([r \in DOMAIN defaults |-> defaults[r]], flagMap, order, 1)

\* Lines 74-85: copy the defaults into a fresh map, then override.
MergeTimeouts(defaults, flagMap, order) ==
    OverrideTimeouts([r \in DOMAIN defaults |-> defaults[r]], flagMap, order, 1)

\* The outcome of NewClientFromFlags for caller options callerOpts, a map
\* iteration order, and the outcomes of reading the CA file, of parsing it
\* and of client.NewClient.
NewClientFromFlagsResult(callerOpts, order, caRead, pemOk, dialOk) ==
    LET opts1  == Append(callerOpts, CASConcurrencyOpt(CASConcurrency))
        merged == MergeTimeouts(DefaultRPCTimeouts, RPCTimeouts, order)
        opts2  == IF Cardinality(DOMAIN RPCTimeouts) > 0
                  THEN Append(opts1, RPCTimeoutsOpt(merged.timeouts))
                  ELSE opts1
        NoDial(e) == [called |-> TRUE, err |-> e, dialed |-> FALSE, created |-> FALSE,
                      opts |-> <<>>]
    IN  IF Cardinality(DOMAIN RPCTimeouts) > 0 /\ merged.err # None
        THEN NoDial(merged.err)
        ELSE IF TLSCACert # "" /\ ~caRead
        THEN NoDial("read error")
        ELSE IF TLSCACert # "" /\ ~pemOk
        THEN NoDial("failed to load TLS CA certificates")
        ELSE [called |-> TRUE, err |-> IF dialOk THEN None ELSE "dial error",
              dialed |-> TRUE, created |-> dialOk, opts |-> opts2]

\* flagsRet before the call: called says whether NewClientFromFlags ran,
\* dialed whether client.NewClient was reached (with opts), created whether
\* a client was returned.
NotCalled == [called |-> FALSE, err |-> None, dialed |-> FALSE, created |-> FALSE,
              opts |-> <<>>]

\* Options a caller passes in front of the flag-derived ones.
CallerOpts == { <<>>, <<[name |-> "UseBatchOps", value |-> 1]>> }

NewClientFromFlags ==
    /\ ~flagsRet.called
    /\ \E callerOpts \in CallerOpts, order \in Orders(DOMAIN RPCTimeouts),
          caRead \in BOOLEAN, pemOk \in BOOLEAN, dialOk \in BOOLEAN :
          flagsRet' = NewClientFromFlagsResult(callerOpts, order, caRead, pemOk, dialOk)
    /\ UNCHANGED <<CASConcurrency, RPCTimeouts, TLSCACert, DefaultRPCTimeouts>>
    /\ UNCHANGED <<treeVars, toolVars, chunkVars, cacheVars, dispatchVars>>

NextFlags == NewClientFromFlags

(***************************************************************************)
(* Tree flattening: tree.FlattenTree and Client.flattenTree                *)
(***************************************************************************)

\* Most leaf entries (files, symlinks, empty directories) of an explored tree.
MaxEntries == 3

\* Byte values of the characters that occur in paths.
Byte == [dot |-> 46, slash |-> 47, a |-> 97, b |-> 98]

\* Child names, as byte strings: "a" and "a.b".
Names == { <<Byte.a>>, <<Byte.a, Byte.dot, Byte.b>> }

\* Go's < on strings: bytewise lexicographic order.
StrLess(s, t) ==
    \E i \in 1..(Len(s) + 1) :
        /\ i <= Len(t)
        /\ \A j \in 1..(i - 1) : s[j] = t[j]
        /\ (i > Len(s) \/ s[i] < t[i])

\* filepath.Join(p, name) for a clean relative p and a plain name.
Join(p, name) == IF Len(p) = 0 THEN name ELSE p \o <<Byte.slash>> \o name

\* The Directory message with no files, directories or symlinks.
EmptyNode == [n \in Names |-> [kind |-> "none"]]

\* digest.NewFromMessage of a Directory: content-addressed, so the digest
\* determines the message.
DirDigest(node) == <<"dir", node>>

\* A child of a directory node: absent, a file, a symlink or a subdirectory
\* referenced by digest.
FileEntry    == [kind |-> "file", digest |-> "file-digest"]
SymlinkEntry == [kind |-> "symlink", target |-> "a.txt"]
DirEntry(node) == [kind |-> "dir", digest |-> DirDigest(node)]

\* Directory nodes of the second level: their subdirectories are empty.
SubNodes == [Names -> {[kind |-> "none"], FileEntry, SymlinkEntry, DirEntry(EmptyNode)}]

\* Root directory nodes.
RootNodes ==
    [Names -> {[kind |-> "none"], FileEntry, SymlinkEntry} \cup {DirEntry(n) : n \in SubNodes}]

\* The nodes a root references, directly or not.
Referenced(root) ==
    LET direct == { n \in SubNodes : \E x \in Names : root[x] = DirEntry(n) }
    IN  direct \cup { EmptyNode : n \in { m \in direct : \E x \in Names : m[x].kind = "dir" } }

IsEmptyDir(node) == \A x \in Names : node[x].kind = "none"

\* The directory a digest resolves to among the tree's children.
Resolve(children, dg) == CHOOSE n \in children : DirDigest(n) = dg

\* Whether some directory reachable from node has no message among children.
RECURSIVE HasMissing(_, _)
HasMissing(node, children) ==
    \E x \in Names :
        /\ node[x].kind = "dir"
        /\ \/ ~\E n \in children : DirDigest(n) = node[x].digest
           \/ HasMissing(Resolve(children, node[x].digest), children)

\* tree.Output values.
EmptyDirOutput == [Digest |-> "empty-digest", IsEmptyDirectory |-> TRUE, SymlinkTarget |-> ""]
FileOutput(e)  == [Digest |-> e.digest, IsEmptyDirectory |-> FALSE, SymlinkTarget |-> ""]
SymlinkOutput(e) == [Digest |-> "", IsEmptyDirectory |-> FALSE, SymlinkTarget |-> e.target]

\* The (path, Output) pairs the recursive flattening of node at path p adds.
RECURSIVE FlatEntries(_, _, _)
FlatEntries(p, node, children) ==
    IF IsEmptyDir(node)
    THEN { <<p, EmptyDirOutput>> }
    ELSE UNION { CASE node[x].kind = "file"    -> { <<Join(p, x), FileOutput(node[x])>> }
                   [] node[x].kind = "symlink" -> { <<Join(p, x), SymlinkOutput(node[x])>> }
                   [] node[x].kind = "dir"     ->
                        FlatEntries(Join(p, x), Resolve(children, node[x].digest), children)
                   [] OTHER -> {}
                 : x \in Names }

\* tree.FlattenTree(t, rootPath): the map from path to Output, or an error
\* when a referenced directory is not among the children.
FlattenTree(t, rootPath) ==
    IF HasMissing(t.Root, t.Children)
    THEN [err |-> "MissingNode", outputs |-> <<>>]
    ELSE LET E == FlatEntries(rootPath, t.Root, t.Children)
         IN  [err |-> None,
              outputs |-> [p \in { e[1] : e \in E } |-> (CHOOSE e \in E : e[1] = p)[2]]]

\* sort.Strings on a slice that is already sorted except for x.
RECURSIVE InsertSorted(_, _)
InsertSorted(x, s) ==
    IF Len(s) = 0 THEN <<x>>
    ELSE IF StrLess(s[1], x) THEN <<s[1]>> \o InsertSorted(x, SubSeq(s, 2, Len(s)))
    ELSE <<x>> \o s

RECURSIVE SortedInsertion(_)
SortedInsertion(s) ==
    IF Len(s) = 0 THEN <<>>
    ELSE InsertSorted(s[1], SortedInsertion(SubSeq(s, 2, Len(s))))

\* A seeded bug: the slice is left in map iteration order.
Unsorted(s) == [i \in 1..Len(s) |-> s[i]]

\* sort.Strings(paths), line 355.
SortStrings(s) == SortedInsertion(s)

\* A seeded bug: the empty-directory branch is missing.
FormatLineNoDirectory(path, output) ==
    IF output.SymlinkTarget # ""
    THEN [path |-> path, label |-> "Symlink", digest |-> output.Digest,
          target |-> output.SymlinkTarget]
    ELSE [path |-> path, label |-> "File", digest |-> output.Digest, target |-> ""]

\* One line of the rendered text, lines 357-364.
FormatLine(path, output) ==
    IF output.IsEmptyDirectory
    THEN [path |-> path, label |-> "Directory", digest |-> output.Digest, target |-> ""]
    ELSE IF output.SymlinkTarget # ""
    THEN [path |-> path, label |-> "Symlink", digest |-> output.Digest,
          target |-> output.SymlinkTarget]
    ELSE [path |-> path, label |-> "File", digest |-> output.Digest, target |-> ""]

\* Client.flattenTree(ctx, t); order is the order in which "range outputs"
\* visits the map's keys.
flattenTree(t, order) ==
    LET r == FlattenTree(t, <<>>)
    IN  IF r.err # None
        THEN [called |-> TRUE, err |-> r.err, text |-> <<>>, paths |-> <<>>]
        ELSE LET paths == SortStrings(order)
             IN  [called |-> TRUE, err |-> None,
                  text |-> [i \in 1..Len(paths) |-> FormatLine(paths[i], r.outputs[paths[i]])],
                  paths |-> paths]

\* The trees explored: every root with at most MaxEntries leaf entries,
\* with its referenced directories present or all absent.
Trees ==
    { [Root |-> root, Children |-> IF complete THEN Referenced(root) ELSE {}] :
        root \in { r \in RootNodes :
                     Cardinality(FlatEntries(<<>>, r, Referenced(r))) <= MaxEntries },
        complete \in BOOLEAN }

IdleTree == [Root |-> EmptyNode, Children |-> {}]

NoFlat == [called |-> FALSE, err |-> None, text |-> <<>>, paths |-> <<>>]

FlattenTreeCall ==
    /\ ~flat.called
    /\ \E order \in Orders(DOMAIN FlattenTree(tree, <<>>).outputs) :
          flat' = flattenTree(tree, order)
    /\ UNCHANGED tree
    /\ UNCHANGED <<flagsVars, toolVars, chunkVars, cacheVars, dispatchVars>>

NextTree == FlattenTreeCall

(***************************************************************************)
(* go/pkg/tool: the operations of Client                                   *)
(***************************************************************************)

\* Digest strings a caller supplies.
DigestStrings == {"aaa/3", "bbb/0", "bogus"}

\* digest.NewFromString: "hash/size" parses, anything else is malformed.
NewFromString(s) ==
    CASE s = "aaa/3" -> [err |-> None, hash |-> "aaa", size |-> 3]
      [] s = "bbb/0" -> [err |-> None, hash |-> "bbb", size |-> 0]
      [] OTHER       -> [err |-> "MalformedDigest", hash |-> "", size |-> 0]

NetEvent(op)  == [kind |-> "net", op |-> op]
DiskEvent(op) == [kind |-> "disk", op |-> op]
ErrEvent(msg) == [kind |-> "stderr", op |-> msg]

IsPrefix(p, q) == Len(p) <= Len(q) /\ SubSeq(q, 1, Len(p)) = p

\* os.RemoveAll(p): p and everything below it is gone.
RemoveAll(d, p) == [q \in { x \in DOMAIN d : ~IsPrefix(p, x) } |-> d[q]]

\* os.Mkdir(p, 0755): creates p unless it exists.
Mkdir(d, p) == IF p \in DOMAIN d THEN d ELSE MapSet(d, p, <<"dir">>)

\* ioutil.WriteFile(p, bytes, 0644), which may fail.
WriteFile(d, p, bytes, ok) == IF ok THEN MapSet(d, p, bytes) ELSE d

\* The path of the temporary file ioutil.TempFile creates.
TmpPath == <<"tmp", "blob">>

\* Contents of the blob behind a digest, and of stdout / stderr.
BlobData(name) == <<"data", name>>

\* Client.getActionResult, lines 369-386. cache is the outcome of
\* CheckActionCache: "err", "nil" (no result) or "hit".
getActionResult(actionDigest, cache) ==
    IF NewFromString(actionDigest).err # None
    THEN [err |-> NewFromString(actionDigest).err, events |-> <<>>]
    ELSE [err |-> CASE cache = "err" -> "rpc error"
                    [] cache = "nil" -> "not found in cache"
                    [] OTHER -> None,
          events |-> <<NetEvent("CheckActionCache")>>]

\* One round of the loop over outMsgs (lines 160-176) for file f, on the
\* state st = [events, disk].
WriteOutMsg(st, pathPrefix, f, env) ==
    IF ~env.present[f]
    THEN st
    ELSE [events |-> st.events \o <<NetEvent("ReadBlob"), DiskEvent("WriteFile")>>,
          disk   |-> WriteFile(st.disk, Append(pathPrefix, f),
                               IF env.readOk[f] THEN BlobData(f) ELSE <<>>,
                               env.writeOk[f])]

\* Lines 147-178 of DownloadActionResult: the outputs, then stdout and
\* stderr, are downloaded into the cleaned directory; every failure is only
\* logged and the call returns nil.
DownloadResults(evs, pathPrefix, env, cleaned) ==
    LET st0 == [events |-> Append(evs, NetEvent("DownloadActionOutputs")),
                disk |-> IF env.outputsOk
                         THEN MapSet(cleaned, Append(pathPrefix, "out.bin"),
                                     BlobData("out.bin"))
                         ELSE cleaned]
        st1 == WriteOutMsg(st0, pathPrefix, env.order[1], env)
        st2 == WriteOutMsg(st1, pathPrefix, env.order[2], env)
    IN  [err |-> None, value |-> <<>>, events |-> st2.events, disk |-> st2.disk]

\* A seeded bug: the directory is cleaned before the action result is looked up.
CleanFirst(actionDigest, pathPrefix, env, d) ==
    LET cleaned == Mkdir(RemoveAll(d, pathPrefix), pathPrefix)
        evs == <<DiskEvent("RemoveAll"), DiskEvent("Mkdir")>>
        r == getActionResult(actionDigest, env.cache)
    IN  IF r.err # None
        THEN [err |-> r.err, value |-> <<>>, events |-> evs \o r.events, disk |-> cleaned]
        ELSE DownloadResults(evs \o r.events, pathPrefix, env, cleaned)

\* Client.DownloadActionResult, lines 137-179, started on disk d.
DownloadActionResult(actionDigest, pathPrefix, env, d) ==
    LET r == getActionResult(actionDigest, env.cache)
    IN  IF r.err # None
        THEN [err |-> r.err, value |-> <<>>, events |-> r.events, disk |-> d]
        ELSE DownloadResults(r.events \o <<DiskEvent("RemoveAll"), DiskEvent("Mkdir")>>,
                             pathPrefix, env, Mkdir(RemoveAll(d, pathPrefix), pathPrefix))

\* The deferred os.Remove(path) of DownloadBlob, line 196.
RemoveTmp(r) ==
    [r EXCEPT !.events = Append(@, DiskEvent("Remove")), !.disk = RemoveAll(@, TmpPath)]

\* DownloadBlob from line 198 on, with path already settled.
DownloadBlobTo(blobDigest, path, outputToStdout, env, evs, d) ==
    IF NewFromString(blobDigest).err # None
    THEN [err |-> NewFromString(blobDigest).err, value |-> <<>>, events |-> evs, disk |-> d]
    ELSE IF ~env.readBlobOk
    THEN [err |-> "rpc error", value |-> <<>>,
          events |-> Append(evs, NetEvent("ReadBlobToFile")), disk |-> d]
    ELSE LET d1 == MapSet(d, path, BlobData(blobDigest))
             e1 == Append(evs, NetEvent("ReadBlobToFile"))
         IN  IF ~outputToStdout
             THEN [err |-> None, value |-> <<>>, events |-> e1, disk |-> d1]
             ELSE IF ~env.readFileOk
             THEN [err |-> "read error", value |-> <<>>,
                   events |-> Append(e1, DiskEvent("ReadFile")), disk |-> d1]
             ELSE [err |-> None, value |-> d1[path],
                   events |-> Append(e1, DiskEvent("ReadFile")), disk |-> d1]

\* Client.DownloadBlob, lines 183-214; the empty path is <<>>.
DownloadBlob(blobDigest, path, env, d) ==
    IF path # <<>>
    THEN DownloadBlobTo(blobDigest, path, FALSE, env, <<>>, d)
    ELSE IF ~env.tmpOk
    THEN [err |-> "tempfile error", value |-> <<>>,
          events |-> <<DiskEvent("TempFile")>>, disk |-> d]
    ELSE IF ~env.closeOk
    THEN [err |-> "close error", value |-> <<>>,
          events |-> <<DiskEvent("TempFile")>>, disk |-> MapSet(d, TmpPath, <<>>)]
    ELSE RemoveTmp(DownloadBlobTo(blobDigest, TmpPath, TRUE, env,
                                  <<DiskEvent("TempFile")>>, MapSet(d, TmpPath, <<>>)))

\* Client.DownloadDirectory, lines 217-229.
DownloadDirectory(rootDigest, path, env, d) ==
    LET cleaned == Mkdir(RemoveAll(d, path), path)
        evs == <<DiskEvent("RemoveAll"), DiskEvent("Mkdir")>>
    IN  IF NewFromString(rootDigest).err # None
        THEN [err |-> NewFromString(rootDigest).err, value |-> <<>>, events |-> evs,
              disk |-> cleaned]
        ELSE [err |-> IF env.dlOk THEN None ELSE "rpc error", value |-> <<>>,
              events |-> Append(evs, NetEvent("DownloadDirectory")),
              disk |-> IF env.dlOk
                       THEN MapSet(cleaned, Append(path, "input"), BlobData("input"))
                       ELSE cleaned]

\* Trees the remote side returns to the tool's operations: a single file;
\* a subdirectory and a symlink; the latter with its subdirectory missing.
FileOnlyRoot == [n \in Names |-> IF n = <<Byte.a>> THEN FileEntry ELSE [kind |-> "none"]]
SubWithFile  == [n \in Names |-> IF n = <<Byte.a>> THEN FileEntry ELSE [kind |-> "none"]]
MixedRoot    == [n \in Names |-> IF n = <<Byte.a>> THEN DirEntry(SubWithFile) ELSE SymlinkEntry]
ToolTrees ==
    { [Root |-> FileOnlyRoot, Children |-> {}],
      [Root |-> MixedRoot, Children |-> {SubWithFile}],
      [Root |-> MixedRoot, Children |-> {}] }

\* Client.getInputTree, lines 314-342.
getInputTree(env) ==
    IF ~env.rootDgOk
    THEN [err |-> "MalformedDigest", events |-> <<>>, text |-> <<>>, paths |-> <<>>]
    ELSE IF env.getTree # "ok"
    THEN [err |-> IF env.getTree = "err" THEN "rpc error" ELSE "Empty directories returned",
          events |-> <<NetEvent("GetDirectoryTree")>>, text |-> <<>>, paths |-> <<>>]
    ELSE LET ft == flattenTree(env.tree, env.order)
         IN  [err |-> ft.err, events |-> <<NetEvent("GetDirectoryTree")>>,
              text |-> IF ft.err = None THEN <<"[Root directory digest]">> \o ft.text ELSE <<>>,
              paths |-> ft.paths]

\* Client.getOutputs, lines 281-312, for an action result with one output
\* file and at most one output directory.
getOutputs(env) ==
    IF ~env.outFileDgOk
    THEN [err |-> "MalformedDigest", events |-> <<>>, text |-> <<>>]
    ELSE IF ~env.outDir
    THEN [err |-> None, events |-> <<>>, text |-> <<"Output Files:", "out.bin">>]
    ELSE IF ~env.outTreeDgOk
    THEN [err |-> "MalformedDigest", events |-> <<>>, text |-> <<>>]
    ELSE IF ~env.readTreeOk
    THEN [err |-> "rpc error", events |-> <<NetEvent("ReadProto")>>, text |-> <<>>]
    ELSE LET ft == flattenTree(env.tree, env.order)
         IN  [err |-> ft.err, events |-> <<NetEvent("ReadProto")>>,
              text |-> IF ft.err = None
                       THEN <<"Output Files:", "out.bin">> \o ft.text ELSE <<>>]

\* Client.ShowAction, lines 232-279.
ShowAction(actionDigest, env, d) ==
    LET r == getActionResult(actionDigest, env.cache)
        Fail(e, evs) == [err |-> e, value |-> <<>>, events |-> evs, disk |-> d]
        e1 == r.events \o <<NetEvent("ReadProto")>>
        e2 == e1 \o <<NetEvent("ReadProto")>>
        inp == getInputTree(env)
        out == getOutputs(env)
    IN  IF r.err # None THEN Fail(r.err, r.events)
        ELSE IF ~env.readAction THEN Fail("rpc error", e1)
        ELSE IF ~env.cmdDgOk THEN Fail("MalformedDigest", e1)
        ELSE IF ~env.readCommand THEN Fail("rpc error", e2)
        ELSE IF inp.err # None THEN Fail(inp.err, e2 \o inp.events)
        ELSE IF out.err # None THEN Fail(out.err, e2 \o inp.events \o out.events)
        ELSE [err |-> None, value |-> <<"Command">> \o inp.text \o out.text,
              events |-> e2 \o inp.events \o out.events, disk |-> d]

\* The fresh directory ReexecuteAction downloads the inputs into, line 73.
FreshInputRoot == <<"tmp", "aaa_time">>

\* The stderr message for a result status, lines 97-108.
StatusMessage(status) ==
    CASE status = "NonZeroExit" -> <<ErrEvent("Remote action FAILED")>>
      [] status = "Timeout"     -> <<ErrEvent("Remote action TIMED OUT")>>
      [] status = "Interrupted" -> <<ErrEvent("Remote execution was interrupted")>>
      [] status = "RemoteError" -> <<ErrEvent("Remote execution error")>>
      [] status = "LocalError"  -> <<ErrEvent("Local error")>>
      [] OTHER -> <<>>

\* A seeded bug: the input tree is downloaded into a fresh directory whatever
\* inputRoot the caller gave.
FetchAlways(actionDigest, inputRoot, env, d) ==
    LET Fail(e, evs, dd) == [err |-> e, value |-> <<>>, events |-> evs, disk |-> dd]
        e1 == <<NetEvent("ReadProto")>>
        e2 == e1 \o <<NetEvent("ReadProto")>>
        inp == getInputTree(env)
        e3 == e2 \o inp.events
        e4 == Append(e3, NetEvent("DownloadDirectory"))
        d4 == IF env.dlOk
              THEN MapSet(Mkdir(d, FreshInputRoot), Append(FreshInputRoot, "input"),
                          BlobData("input"))
              ELSE d
        run == [kind |-> "net", op |-> "Run", execRoot |-> FreshInputRoot,
                inputs |-> inp.paths]
    IN  IF NewFromString(actionDigest).err # None
        THEN Fail(NewFromString(actionDigest).err, <<>>, d)
        ELSE IF ~env.readAction THEN Fail("rpc error", e1, d)
        ELSE IF ~env.cmdDgOk THEN Fail("MalformedDigest", e1, d)
        ELSE IF ~env.readCommand THEN Fail("rpc error", e2, d)
        ELSE IF inp.err # None THEN Fail(inp.err, e3, d)
        ELSE IF ~env.dlOk THEN Fail("rpc error", e4, d4)
        ELSE IF env.timeout = "bad" THEN Fail("bad duration", e4, d4)
        ELSE [err |-> env.res.err, value |-> <<>>,
              events |-> Append(e4, run) \o StatusMessage(env.res.status), disk |-> d4]

\* Client.ReexecuteAction, lines 41-111; the empty inputRoot is <<>>.
ReexecuteAction(actionDigest, inputRoot, env, d) ==
    LET Fail(e, evs, dd) == [err |-> e, value |-> <<>>, events |-> evs, disk |-> dd]
        e1 == <<NetEvent("ReadProto")>>
        e2 == e1 \o <<NetEvent("ReadProto")>>
        inp == getInputTree(env)
        e3 == e2 \o inp.events
        fetch == inputRoot = <<>>
        e4 == IF fetch THEN Append(e3, NetEvent("DownloadDirectory")) ELSE e3
        d4 == IF fetch /\ env.dlOk
              THEN MapSet(Mkdir(d, FreshInputRoot), Append(FreshInputRoot, "input"),
                          BlobData("input"))
              ELSE d
        execRoot == IF fetch THEN FreshInputRoot ELSE inputRoot
        run == [kind |-> "net", op |-> "Run", execRoot |-> execRoot, inputs |-> inp.paths]
    IN  IF NewFromString(actionDigest).err # None
        THEN Fail(NewFromString(actionDigest).err, <<>>, d)
        ELSE IF ~env.readAction THEN Fail("rpc error", e1, d)
        ELSE IF ~env.cmdDgOk THEN Fail("MalformedDigest", e1, d)
        ELSE IF ~env.readCommand THEN Fail("rpc error", e2, d)
        ELSE IF inp.err # None THEN Fail(inp.err, e3, d)
        ELSE IF fetch /\ ~env.dlOk THEN Fail("rpc error", e4, d4)
        ELSE IF env.timeout = "bad" THEN Fail("bad duration", e4, d4)
        ELSE [err |-> env.res.err, value |-> <<>>,
              events |-> Append(e4, run) \o StatusMessage(env.res.status), disk |-> d4]

\* The files DownloadActionResult writes stdout and stderr to.
OutMsgs == {"stdout", "stderr"}

\* Outcomes of DownloadActionResult's collaborators: the cache lookup, which
\* of the two digests the result carries, the download of the outputs, each
\* ReadBlob and WriteFile, and the order of "range outMsgs".
ActionResultEnvs ==
    [cache : {"err", "nil", "hit"}, present : [OutMsgs -> BOOLEAN], outputsOk : BOOLEAN,
     readOk : [OutMsgs -> BOOLEAN], writeOk : [OutMsgs -> BOOLEAN], order : Orders(OutMsgs)]

\* Outcomes of DownloadBlob's and DownloadDirectory's collaborators.
BlobEnvs == [tmpOk : BOOLEAN, closeOk : BOOLEAN, readBlobOk : BOOLEAN, readFileOk : BOOLEAN]
DirectoryEnvs == [dlOk : BOOLEAN]

\* A tree the remote side returns, with an iteration order of its flat map.
TreeChoices ==
    UNION { { [tree |-> t, order |-> o] : o \in Orders(DOMAIN FlattenTree(t, <<>>).outputs) }
            : t \in ToolTrees }

DefaultTree == CHOOSE tc \in TreeChoices : tc.tree.Root = FileOnlyRoot

\* Results of rexec.Client.Run: a status and the error it carries.
RunResults ==
    { [status |-> st, err |-> None] : st \in {"Success", "CacheHit"} }
    \cup [status : {"NonZeroExit", "Timeout", "Interrupted", "RemoteError", "LocalError"},
          err : {None, "run error"}]

DefaultRun == [status |-> "Success", err |-> None]

\* An outcome record is canonical when every collaborator consulted after
\* the first failing one has its default outcome (it is never reached).
Canonical(fails, defaulted) ==
    \A i, j \in 1..Len(fails) : (i < j /\ fails[i]) => defaulted[j]

\* Outcomes of ShowAction's collaborators.
ShowEnvs ==
    { env \in
        { [cache |-> c, readAction |-> ra, cmdDgOk |-> cd, readCommand |-> rc,
           rootDgOk |-> rd, getTree |-> gt, tree |-> tc.tree, order |-> tc.order,
           outFileDgOk |-> of, outDir |-> od, outTreeDgOk |-> ot, readTreeOk |-> rt] :
          c \in {"err", "nil", "hit"}, ra \in BOOLEAN, cd \in BOOLEAN, rc \in BOOLEAN,
          rd \in BOOLEAN, gt \in {"err", "empty", "ok"}, tc \in TreeChoices,
          of \in BOOLEAN, od \in BOOLEAN, ot \in BOOLEAN, rt \in BOOLEAN } :
        Canonical(
          <<env.cache # "hit", ~env.readAction, ~env.cmdDgOk, ~env.readCommand,
            ~env.rootDgOk, env.getTree # "ok",
            FlattenTree(env.tree, <<>>).err # None, ~env.outFileDgOk, ~env.outDir,
            ~env.outTreeDgOk, ~env.readTreeOk>>,
          <<env.cache = "hit", env.readAction, env.cmdDgOk, env.readCommand,
            env.rootDgOk, env.getTree = "ok",
            env.tree = DefaultTree.tree /\ env.order = DefaultTree.order,
            env.outFileDgOk, env.outDir, env.outTreeDgOk, env.readTreeOk>>) }

\* Outcomes of ReexecuteAction's collaborators.
ReexecuteEnvs ==
    { env \in
        { [readAction |-> ra, cmdDgOk |-> cd, readCommand |-> rc, rootDgOk |-> rd,
           getTree |-> gt, tree |-> tc.tree, order |-> tc.order, dlOk |-> dl,
           timeout |-> tm, res |-> rr] :
          ra \in BOOLEAN, cd \in BOOLEAN, rc \in BOOLEAN, rd \in BOOLEAN,
          gt \in {"err", "empty", "ok"}, tc \in TreeChoices, dl \in BOOLEAN,
          tm \in {"nil", "ok", "bad"}, rr \in RunResults } :
        Canonical(
          <<~env.readAction, ~env.cmdDgOk, ~env.readCommand, ~env.rootDgOk,
            env.getTree # "ok", FlattenTree(env.tree, <<>>).err # None, ~env.dlOk,
            env.timeout = "bad", FALSE>>,
          <<env.readAction, env.cmdDgOk, env.readCommand, env.rootDgOk,
            env.getTree = "ok",
            env.tree = DefaultTree.tree /\ env.order = DefaultTree.order, env.dlOk,
            env.timeout = "nil", env.res = DefaultRun>>) }

\* The directory the download operations are pointed at.
OutPath == <<"out">>

NoFiles == <<>>
OldFiles == [q \in {OutPath, Append(OutPath, "old")} |->
                IF q = OutPath THEN <<"dir">> ELSE BlobData("old")]

NoCall == [op |-> None]
NoRet  == [err |-> None, value |-> <<>>]

\* The effect of a call that returned r.
Returned(r) ==
    /\ ret' = [err |-> r.err, value |-> r.value]
    /\ events' = r.events
    /\ disk' = r.disk
    /\ UNCHANGED <<flagsVars, treeVars, chunkVars, cacheVars, dispatchVars>>

CallDownloadActionResult ==
    /\ call.op = None
    /\ \E dg \in DigestStrings, env \in ActionResultEnvs :
          /\ call' = [op |-> "DownloadActionResult", digest |-> dg, path |-> OutPath,
                      env |-> env]
          /\ Returned(DownloadActionResult(dg, OutPath, env, disk))

CallDownloadBlob ==
    /\ call.op = None
    /\ \E dg \in DigestStrings, path \in {<<>>, <<"blob">>}, env \in BlobEnvs :
          /\ call' = [op |-> "DownloadBlob", digest |-> dg, path |-> path, env |-> env]
          /\ Returned(DownloadBlob(dg, path, env, disk))

CallDownloadDirectory ==
    /\ call.op = None
    /\ \E dg \in DigestStrings, env \in DirectoryEnvs :
          /\ call' = [op |-> "DownloadDirectory", digest |-> dg, path |-> OutPath,
                      env |-> env]
          /\ Returned(DownloadDirectory(dg, OutPath, env, disk))

CallShowAction ==
    /\ call.op = None
    /\ \E dg \in DigestStrings, env \in ShowEnvs :
          /\ call' = [op |-> "ShowAction", digest |-> dg, path |-> <<>>, env |-> env]
          /\ Returned(ShowAction(dg, env, disk))

CallReexecuteAction ==
    /\ call.op = None
    /\ \E dg \in DigestStrings, inputRoot \in {<<>>, <<"in">>}, env \in ReexecuteEnvs :
          /\ call' = [op |-> "ReexecuteAction", digest |-> dg, path |-> inputRoot,
                      env |-> env]
          /\ Returned(ReexecuteAction(dg, inputRoot, env, disk))

NextTool ==
    \/ CallDownloadActionResult
    \/ CallDownloadBlob
    \/ CallDownloadDirectory
    \/ CallShowAction
    \/ CallReexecuteAction

(***************************************************************************)
(* Chunker                                                                 *)
(***************************************************************************)

\* Largest blob, in bytes, and largest chunk size that are explored.
MaxBlobSize == 5
MaxChunkSize == 3

NoChunker == [state |-> None]

Min(a, b) == IF a < b THEN a ELSE b

\* A seeded bug: every chunk is a full chunk, the last one included.
FullChunkLength(c) == c.chunkSize

\* The length of the chunk at the current offset: a full chunk, or what is
\* left of the blob.
ChunkLength(c) == Min(c.chunkSize, c.totalSize - c.offset)

\* hasNext().
HasNext(c) == ~c.reachedEOF

\* forSource(source, chunkSize), for a source of totalSize bytes: the chunk
\* size must be positive.
ForSource(totalSize, chunkSize) ==
    /\ chunker = NoChunker
    /\ chunker' = IF chunkSize <= 0
                  THEN [state |-> "invalid"]
                  ELSE [state |-> "open", totalSize |-> totalSize, chunkSize |-> chunkSize,
                        offset |-> 0, start |-> 0, reachedEOF |-> FALSE]
    /\ chunkErr' = IF chunkSize <= 0 THEN "InvalidConfig" ELSE None
    /\ chunks' = <<>>
    /\ UNCHANGED <<flagsVars, treeVars, toolVars, cacheVars, dispatchVars>>

ChunkerForSource ==
    \E totalSize \in 0..MaxBlobSize, chunkSize \in 0..MaxChunkSize :
        ForSource(totalSize, chunkSize)

\* next(): the chunk at the current offset, or ChunkerExhausted once the
\* final chunk was produced. An empty blob has one, empty, chunk.
ChunkerNext ==
    /\ chunker.state = "open"
    /\ IF HasNext(chunker)
       THEN LET len == ChunkLength(chunker)
            IN  /\ chunks' = Append(chunks, [offset |-> chunker.offset, length |-> len])
                /\ chunker' = [chunker EXCEPT !.offset = @ + len,
                                              !.reachedEOF = (chunker.offset + len
                                                              >= chunker.totalSize)]
                /\ chunkErr' = None
       ELSE /\ chunkErr' = "ChunkerExhausted"
            /\ UNCHANGED <<chunker, chunks>>
    /\ UNCHANGED <<flagsVars, treeVars, toolVars, cacheVars, dispatchVars>>

\* seek(offset): a new sequence of chunks starts at offset, unless the
\* source cannot be repositioned.
Seek(offset, ok) ==
    /\ chunker.state = "open"
    /\ IF ok
       THEN /\ chunker' = [chunker EXCEPT !.offset = offset, !.start = offset,
                                          !.reachedEOF = FALSE]
            /\ chunks' = <<>>
            /\ chunkErr' = None
       ELSE /\ chunkErr' = "SeekError"
            /\ UNCHANGED <<chunker, chunks>>
    /\ UNCHANGED <<flagsVars, treeVars, toolVars, cacheVars, dispatchVars>>

ChunkerSeek ==
    \E offset \in 1..MaxBlobSize, ok \in BOOLEAN :
        /\ chunker.state = "open"
        /\ offset < chunker.totalSize
        /\ Seek(offset, ok)

\* reset(): seek(0).
ChunkerReset == \E ok \in BOOLEAN : Seek(0, ok)

NextChunker ==
    \/ ChunkerForSource
    \/ ChunkerNext
    \/ ChunkerSeek
    \/ ChunkerReset

(***************************************************************************)
(* Specifications                                                          *)
(***************************************************************************)

\* Each specification starts its own component from its inputs and holds
\* the variables of the other components at a fixed idle value.
InitFlags ==
    /\ CASConcurrency \in 1..MaxConcurrency
    /\ RPCTimeouts \in FlagMaps
    /\ TLSCACert \in {"", "ca.pem"}
    /\ DefaultRPCTimeouts \in DefaultMaps
    /\ flagsRet = NotCalled
    /\ tree = IdleTree /\ flat = NoFlat
    /\ disk = NoFiles /\ events = <<>> /\ call = NoCall /\ ret = NoRet
    /\ chunker = NoChunker /\ chunks = <<>> /\ chunkErr = None
    /\ files = <<>> /\ entries = <<>> /\ walkers = <<>>
    /\ concurrencyLimit = 1 /\ jobs = <<>> /\ dispatch = None

SpecFlags == InitFlags /\ [][NextFlags]_vars

InitTree ==
    /\ tree \in Trees
    /\ flat = NoFlat
    /\ CASConcurrency = 1 /\ RPCTimeouts = <<>> /\ TLSCACert = ""
    /\ DefaultRPCTimeouts = <<>> /\ flagsRet = NotCalled
    /\ disk = NoFiles /\ events = <<>> /\ call = NoCall /\ ret = NoRet
    /\ chunker = NoChunker /\ chunks = <<>> /\ chunkErr = None
    /\ files = <<>> /\ entries = <<>> /\ walkers = <<>>
    /\ concurrencyLimit = 1 /\ jobs = <<>> /\ dispatch = None

SpecTree == InitTree /\ [][NextTree]_vars

InitTool ==
    /\ disk \in {NoFiles, OldFiles}
    /\ events = <<>>
    /\ call = NoCall
    /\ ret = NoRet
    /\ CASConcurrency = 1 /\ RPCTimeouts = <<>> /\ TLSCACert = ""
    /\ DefaultRPCTimeouts = <<>> /\ flagsRet = NotCalled
    /\ tree = IdleTree /\ flat = NoFlat
    /\ chunker = NoChunker /\ chunks = <<>> /\ chunkErr = None
    /\ files = <<>> /\ entries = <<>> /\ walkers = <<>>
    /\ concurrencyLimit = 1 /\ jobs = <<>> /\ dispatch = None

SpecTool == InitTool /\ [][NextTool]_vars

(***************************************************************************)
(* FileMetadataCache                                                       *)
(***************************************************************************)

\* How many times the file is written during a run.
MaxMods == 2

\* The walkers that use the cache concurrently, and the paths they walk.
Walkers == {"w1", "w2"}
CachePaths == {"f"}

\* Sizes and permission bits a file can have.
FileSizes == {10, 20}
FileModes == {"rw-", "rwx"}

\* The signature of a file as stat reports it: size, mtime, mode.
Signature(f) == [size |-> f.size, mtime |-> f.mtime, mode |-> f.mode]

\* Digest.fromContent: the hash identifies the content, the size is its length.
DigestOf(f) == [hash |-> f.content, size |-> f.size]

NoEntry == [present |-> FALSE]

\* A seeded bug: the stored validator is not compared with the file.
GetUnvalidated(p) ==
    IF entries[p].present /\ files[p].exists
    THEN [found |-> TRUE, digest |-> entries[p].digest]
    ELSE [found |-> FALSE]

\* get(path): the cached digest if the stored validator equals the
\* signature the file has right now, a miss otherwise.
CacheGet(p) ==
    IF entries[p].present /\ files[p].exists
       /\ entries[p].validator = Signature(files[p])
    THEN [found |-> TRUE, digest |-> entries[p].digest]
    ELSE [found |-> FALSE]

\* put(path, digest, validator): overwrites any prior entry.
CachePut(p, digest, validator) ==
    [entries EXCEPT ![p] = [present |-> TRUE, digest |-> digest, validator |-> validator]]

IdleWalker == [pc |-> "idle", last |-> [kind |-> None]]

\* The file is rewritten: new content, a later mtime, some size.
ModifyFile(p) ==
    /\ files[p].mtime < MaxMods
    /\ \E sz \in FileSizes :
          files' = [files EXCEPT ![p] = [exists |-> TRUE, content |-> files[p].mtime + 1,
                                         size |-> sz, mtime |-> files[p].mtime + 1,
                                         mode |-> files[p].mode]]
    /\ UNCHANGED <<entries, walkers>>
    /\ UNCHANGED <<flagsVars, treeVars, toolVars, chunkVars, dispatchVars>>

\* The file's permission bits change; content and mtime stay.
ChmodFile(p) ==
    /\ files[p].exists
    /\ \E m \in FileModes \ {files[p].mode} :
          files' = [files EXCEPT ![p].mode = m]
    /\ UNCHANGED <<entries, walkers>>
    /\ UNCHANGED <<flagsVars, treeVars, toolVars, chunkVars, dispatchVars>>

\* The file disappears (until it is written again).
DeleteFile(p) ==
    /\ files[p].exists
    /\ files' = [files EXCEPT ![p].exists = FALSE]
    /\ UNCHANGED <<entries, walkers>>
    /\ UNCHANGED <<flagsVars, treeVars, toolVars, chunkVars, dispatchVars>>

\* A walker calls get(path).
WalkerGet(w, p) ==
    /\ walkers[w].pc = "idle"
    /\ walkers' = [walkers EXCEPT ![w].last =
                     IF CacheGet(p).found
                     THEN [kind |-> "hit", digest |-> CacheGet(p).digest,
                           validator |-> entries[p].validator,
                           sig |-> Signature(files[p]), started |-> files[p].content]
                     ELSE [kind |-> "miss"]]
    /\ UNCHANGED <<files, entries>>
    /\ UNCHANGED <<flagsVars, treeVars, toolVars, chunkVars, dispatchVars>>

\* A caller of put first takes digest and validator from the file as it is.
WalkerObserve(w, p) ==
    /\ walkers[w].pc = "idle"
    /\ files[p].exists
    /\ walkers' = [walkers EXCEPT ![w] = [pc |-> "put", path |-> p,
                                          digest |-> DigestOf(files[p]),
                                          sig |-> Signature(files[p]),
                                          last |-> [kind |-> None]]]
    /\ UNCHANGED <<files, entries>>
    /\ UNCHANGED <<flagsVars, treeVars, toolVars, chunkVars, dispatchVars>>

\* ... and calls put(path, digest, validator) with them, possibly later.
WalkerPut(w) ==
    /\ walkers[w].pc = "put"
    /\ entries' = CachePut(walkers[w].path, walkers[w].digest, walkers[w].sig)
    /\ walkers' = [walkers EXCEPT ![w] = [pc |-> "idle", last |-> [kind |-> "put"]]]
    /\ UNCHANGED files
    /\ UNCHANGED <<flagsVars, treeVars, toolVars, chunkVars, dispatchVars>>

\* computeOrGet(path), first step: the signature is taken and the cache
\* checked; a hit returns, a miss goes on to read the file.
WalkerCheck(w, p) ==
    /\ walkers[w].pc = "idle"
    /\ walkers' = [walkers EXCEPT ![w] =
                     IF ~files[p].exists
                     THEN [pc |-> "idle", last |-> [kind |-> "FileUnreadable"]]
                     ELSE IF CacheGet(p).found
                     THEN [pc |-> "idle",
                           last |-> [kind |-> "hit", digest |-> CacheGet(p).digest,
                                     validator |-> entries[p].validator,
                                     sig |-> Signature(files[p]),
                                     started |-> files[p].content]]
                     ELSE [pc |-> "read", path |-> p, sig |-> Signature(files[p]),
                           started |-> files[p].content, last |-> [kind |-> None]]]
    /\ UNCHANGED <<files, entries>>
    /\ UNCHANGED <<flagsVars, treeVars, toolVars, chunkVars, dispatchVars>>

\* computeOrGet, second step: the file is read and hashed, unless it is gone.
WalkerRead(w) ==
    /\ walkers[w].pc = "read"
    /\ walkers' = [walkers EXCEPT ![w] =
                     IF ~files[walkers[w].path].exists
                     THEN [pc |-> "idle", last |-> [kind |-> "FileUnreadable"]]
                     ELSE [pc |-> "store", path |-> walkers[w].path, sig |-> walkers[w].sig,
                           started |-> walkers[w].started,
                           digest |-> DigestOf(files[walkers[w].path]),
                           last |-> [kind |-> None]]]
    /\ UNCHANGED <<files, entries>>
    /\ UNCHANGED <<flagsVars, treeVars, toolVars, chunkVars, dispatchVars>>

\* computeOrGet, last step: the new entry is stored and the digest returned.
WalkerStore(w) ==
    /\ walkers[w].pc = "store"
    /\ entries' = CachePut(walkers[w].path, walkers[w].digest, walkers[w].sig)
    /\ walkers' = [walkers EXCEPT ![w] =
                     [pc |-> "idle",
                      last |-> [kind |-> "computed", digest |-> walkers[w].digest,
                                started |-> walkers[w].started]]]
    /\ UNCHANGED files
    /\ UNCHANGED <<flagsVars, treeVars, toolVars, chunkVars, dispatchVars>>

NextCache ==
    \/ \E p \in CachePaths : ModifyFile(p)
    \/ \E p \in CachePaths : ChmodFile(p)
    \/ \E p \in CachePaths : DeleteFile(p)
    \/ \E w \in Walkers, p \in CachePaths : WalkerGet(w, p)
    \/ \E w \in Walkers, p \in CachePaths : WalkerObserve(w, p)
    \/ \E w \in Walkers : WalkerPut(w)
    \/ \E w \in Walkers, p \in CachePaths : WalkerCheck(w, p)
    \/ \E w \in Walkers : WalkerRead(w)
    \/ \E w \in Walkers : WalkerStore(w)

InitCache ==
    /\ files = [p \in CachePaths |-> [exists |-> TRUE, content |-> 0, size |-> 10,
                                       mtime |-> 0, mode |-> "rw-"]]
    /\ entries = [p \in CachePaths |-> NoEntry]
    /\ walkers = [w \in Walkers |-> IdleWalker]
    /\ CASConcurrency = 1 /\ RPCTimeouts = <<>> /\ TLSCACert = ""
    /\ DefaultRPCTimeouts = <<>> /\ flagsRet = NotCalled
    /\ tree = IdleTree /\ flat = NoFlat
    /\ disk = NoFiles /\ events = <<>> /\ call = NoCall /\ ret = NoRet
    /\ chunker = NoChunker /\ chunks = <<>> /\ chunkErr = None
    /\ concurrencyLimit = 1 /\ jobs = <<>> /\ dispatch = None

SpecCache == InitCache /\ [][NextCache]_vars

(***************************************************************************)
(* BatchDispatcher                                                         *)
(***************************************************************************)

\* Most jobs of one dispatch, and the attempts a job's RPC is given.
MaxJobs == 3
MaxAttempts == 2

\* The concurrency ceiling of a client created by NewClientFromFlags: the
\* value of the CASConcurrency option it appends.
ClientConcurrency == CASConcurrencyOpt(CASConcurrency).value

QueuedJob == [state |-> "queued", attempts |-> 0, cause |-> None]

\* The jobs that hold a concurrency slot.
Executing == { j \in DOMAIN jobs : jobs[j].state = "executing" }

Terminal == {"succeeded", "failed", "cancelled"}

\* Every job that has not finished is cancelled.
CancelPending(js) ==
    [j \in DOMAIN js |-> IF js[j].state \in Terminal THEN js[j]
                         ELSE [js[j] EXCEPT !.state = "cancelled"]]

\* A seeded bug: a job that exhausts its retries is treated as fatal and
\* takes its siblings down.
ExhaustedIsFatal(js, j) ==
    IF js[j].attempts + 1 >= MaxAttempts
    THEN CancelPending([js EXCEPT ![j] = [state |-> "failed", attempts |-> js[j].attempts + 1,
                                          cause |-> "transient"]])
    ELSE [js EXCEPT ![j].attempts = @ + 1]

\* A transient failure of job j's RPC: retried until the attempts are used
\* up, then recorded as a permanent failure of that job alone.
AfterTransient(js, j) ==
    IF js[j].attempts + 1 >= MaxAttempts
    THEN [js EXCEPT ![j] = [state |-> "failed", attempts |-> js[j].attempts + 1,
                            cause |-> "transient"]]
    ELSE [js EXCEPT ![j].attempts = @ + 1]

\* dispatch(requests): the requests are sliced into jobs, all queued.
StartDispatch ==
    /\ dispatch = None
    /\ \E n \in 1..MaxJobs : jobs' = [j \in 1..n |-> QueuedJob]
    /\ dispatch' = "running"
    /\ UNCHANGED concurrencyLimit
    /\ UNCHANGED <<flagsVars, treeVars, toolVars, chunkVars, cacheVars>>

\* A queued job is admitted while fewer than concurrencyLimit jobs are outstanding.
Admit(j) ==
    /\ dispatch = "running"
    /\ jobs[j].state = "queued"
    /\ Cardinality(Executing) < concurrencyLimit
    /\ jobs' = [jobs EXCEPT ![j].state = "executing"]
    /\ UNCHANGED <<concurrencyLimit, dispatch>>
    /\ UNCHANGED <<flagsVars, treeVars, toolVars, chunkVars, cacheVars>>

\* The job's RPC succeeds.
RpcSucceeds(j) ==
    /\ dispatch = "running"
    /\ jobs[j].state = "executing"
    /\ jobs' = [jobs EXCEPT ![j].state = "succeeded"]
    /\ UNCHANGED <<concurrencyLimit, dispatch>>
    /\ UNCHANGED <<flagsVars, treeVars, toolVars, chunkVars, cacheVars>>

\* The job's RPC fails with a timeout or a transport reset.
RpcTransientFailure(j) ==
    /\ dispatch = "running"
    /\ jobs[j].state = "executing"
    /\ jobs' = AfterTransient(jobs, j)
    /\ dispatch' = IF \E k \in DOMAIN jobs : jobs[k].state # "cancelled"
                                             /\ jobs'[k].state = "cancelled"
                   THEN "failed" ELSE dispatch
    /\ UNCHANGED concurrencyLimit
    /\ UNCHANGED <<flagsVars, treeVars, toolVars, chunkVars, cacheVars>>

\* The job's RPC fails for good (digest mismatch, malformed response): not retried.
RpcPermanentFailure(j) ==
    /\ dispatch = "running"
    /\ jobs[j].state = "executing"
    /\ jobs' = [jobs EXCEPT ![j].state = "failed", ![j].cause = "permanent"]
    /\ UNCHANGED <<concurrencyLimit, dispatch>>
    /\ UNCHANGED <<flagsVars, treeVars, toolVars, chunkVars, cacheVars>>

\* The job's RPC fails with an authentication or permission error: the
\* outstanding and queued jobs are cancelled and the call fails as a whole.
RpcFatalFailure(j) ==
    /\ dispatch = "running"
    /\ jobs[j].state = "executing"
    /\ jobs' = CancelPending([jobs EXCEPT ![j].state = "failed", ![j].cause = "fatal"])
    /\ dispatch' = "failed"
    /\ UNCHANGED concurrencyLimit
    /\ UNCHANGED <<flagsVars, treeVars, toolVars, chunkVars, cacheVars>>

\* The caller cancels the transfer.
CancelDispatch ==
    /\ dispatch = "running"
    /\ jobs' = CancelPending(jobs)
    /\ dispatch' = "cancelled"
    /\ UNCHANGED concurrencyLimit
    /\ UNCHANGED <<flagsVars, treeVars, toolVars, chunkVars, cacheVars>>

\* Every job has a result: the call returns them.
FinishDispatch ==
    /\ dispatch = "running"
    /\ \A j \in DOMAIN jobs : jobs[j].state \in Terminal
    /\ dispatch' = "done"
    /\ UNCHANGED <<concurrencyLimit, jobs>>
    /\ UNCHANGED <<flagsVars, treeVars, toolVars, chunkVars, cacheVars>>

NextDispatch ==
    \/ StartDispatch
    \/ \E j \in DOMAIN jobs : Admit(j)
    \/ \E j \in DOMAIN jobs : RpcSucceeds(j)
    \/ \E j \in DOMAIN jobs : RpcTransientFailure(j)
    \/ \E j \in DOMAIN jobs : RpcPermanentFailure(j)
    \/ \E j \in DOMAIN jobs : RpcFatalFailure(j)
    \/ CancelDispatch
    \/ FinishDispatch

InitDispatch ==
    /\ CASConcurrency \in 1..MaxConcurrency
    /\ concurrencyLimit = ClientConcurrency
    /\ jobs = <<>>
    /\ dispatch = None
    /\ RPCTimeouts = <<>> /\ TLSCACert = ""
    /\ DefaultRPCTimeouts = <<>> /\ flagsRet = NotCalled
    /\ tree = IdleTree /\ flat = NoFlat
    /\ disk = NoFiles /\ events = <<>> /\ call = NoCall /\ ret = NoRet
    /\ chunker = NoChunker /\ chunks = <<>> /\ chunkErr = None
    /\ files = <<>> /\ entries = <<>> /\ walkers = <<>>

SpecDispatch == InitDispatch /\ [][NextDispatch]_vars

InitChunker ==
    /\ chunker = NoChunker /\ chunks = <<>> /\ chunkErr = None
    /\ CASConcurrency = 1 /\ RPCTimeouts = <<>> /\ TLSCACert = ""
    /\ DefaultRPCTimeouts = <<>> /\ flagsRet = NotCalled
    /\ tree = IdleTree /\ flat = NoFlat
    /\ disk = NoFiles /\ events = <<>> /\ call = NoCall /\ ret = NoRet
    /\ files = <<>> /\ entries = <<>> /\ walkers = <<>>
    /\ concurrencyLimit = 1 /\ jobs = <<>> /\ dispatch = None

SpecChunker == InitChunker /\ [][NextChunker]_vars

(***************************************************************************)
(* Properties                                                              *)
(***************************************************************************)

\* The paths of the empty directories of a tree, read off its structure.
EmptyDirPaths(t) ==
    (IF IsEmptyDir(t.Root) THEN { <<>> } ELSE {})
    \cup { Join(<<>>, x) : x \in { y \in Names :
              t.Root[y].kind = "dir" /\ IsEmptyDir(Resolve(t.Children, t.Root[y].digest)) } }
    \cup UNION { { Join(Join(<<>>, x), y) : y \in { z \in Names :
                      Resolve(t.Children, t.Root[x].digest)[z].kind = "dir" } }
                : x \in { y \in Names : t.Root[y].kind = "dir" } }

\* C5: a successful flattenTree returns the paths of the flattening result
\* in lexicographic order, each exactly once, and its text has one line per
\* path in that same order.
C5_SortedUniquePaths ==
    (flat.called /\ flat.err = None) =>
        /\ \A i, j \in 1..Len(flat.paths) : i < j => StrLess(flat.paths[i], flat.paths[j])
        /\ { flat.paths[i] : i \in 1..Len(flat.paths) } = DOMAIN FlattenTree(tree, <<>>).outputs
        /\ Len(flat.paths) = Cardinality(DOMAIN FlattenTree(tree, <<>>).outputs)
        /\ Len(flat.text) = Len(flat.paths)
        /\ \A i \in 1..Len(flat.paths) : flat.text[i].path = flat.paths[i]

\* A flattening of three paths, one below a subdirectory and one that the
\* byte order places before it ("a.b" < "a/a").
C5_Witness ==
    /\ flat.called /\ flat.err = None
    /\ Len(flat.paths) = 3
    /\ flat.paths[1] = <<Byte.a, Byte.dot, Byte.b>>
    /\ flat.paths[2] = <<Byte.a, Byte.slash, Byte.a>>

\* C6: after a successful flattenTree every empty directory of the tree has
\* exactly one line, and that line is a directory line.
C6_EmptyDirectoryKept ==
    (flat.called /\ flat.err = None) =>
        \A p \in EmptyDirPaths(tree) :
            /\ Cardinality({ i \in 1..Len(flat.text) : flat.text[i].path = p }) = 1
            /\ \A i \in 1..Len(flat.text) :
                   flat.text[i].path = p => flat.text[i].label = "Directory"

\* A flattened tree with an empty subdirectory next to a file.
C6_Witness ==
    /\ flat.called /\ flat.err = None
    /\ \E p \in EmptyDirPaths(tree) : Len(p) > 0
    /\ \E i \in 1..Len(flat.text) : flat.text[i].label = "File"
    /\ \E i \in 1..Len(flat.text) : flat.text[i].label = "Directory"

\* Some value of the rpc_timeouts flag does not parse as a duration.
BadFlag == \E r \in DOMAIN RPCTimeouts : ParseDuration(RPCTimeouts[r]).err # None

\* The positions of the timeout option among the options given to NewClient.
TimeoutOpts == { i \in 1..Len(flagsRet.opts) : flagsRet.opts[i].name = "RPCTimeouts" }

\* C9: NewClientFromFlags with a non-empty rpc_timeouts flag hands the
\* client the defaults overridden entry by entry by the flag values; with an
\* empty flag it adds no timeout option; a value that does not parse makes
\* the call fail without a client; the default map is never written.
C9_TimeoutsMerged ==
    /\ [](flagsRet.called =>
           /\ BadFlag => (flagsRet.err # None /\ ~flagsRet.dialed /\ ~flagsRet.created)
           /\ (flagsRet.dialed /\ DOMAIN RPCTimeouts = {}) => TimeoutOpts = {}
           /\ (flagsRet.dialed /\ DOMAIN RPCTimeouts # {}) =>
                /\ Cardinality(TimeoutOpts) = 1
                /\ \A i \in TimeoutOpts :
                     LET m == flagsRet.opts[i].value
                     IN  /\ DOMAIN m = (DOMAIN DefaultRPCTimeouts) \cup (DOMAIN RPCTimeouts)
                         /\ \A r \in DOMAIN RPCTimeouts :
                                m[r] = ParseDuration(RPCTimeouts[r]).d
                         /\ \A r \in (DOMAIN DefaultRPCTimeouts) \ (DOMAIN RPCTimeouts) :
                                m[r] = DefaultRPCTimeouts[r])
    /\ [][DefaultRPCTimeouts' = DefaultRPCTimeouts]_vars

\* A client created with a flag that overrides one default ("Execute") and
\* leaves another ("default") alone.
C9_Witness ==
    /\ flagsRet.created
    /\ DOMAIN RPCTimeouts = {"Execute"}
    /\ RPCTimeouts["Execute"] = "10s"
    /\ DOMAIN DefaultRPCTimeouts = {"default", "Execute"}

\* C7: a call with a malformed digest string fails before any network call
\* and before any disk operation.
C7_MalformedDigestRejectedFirst ==
    (call.op # None /\ NewFromString(call.digest).err # None) =>
        (ret.err # None /\ Len(events) = 0)

\* C8: a DownloadActionResult that returns nil downloaded the outputs and
\* wrote stdout and stderr, as far as their digests are present.
C8_SuccessIsComplete ==
    (call.op = "DownloadActionResult" /\ ret.err = None) =>
        /\ call.env.outputsOk
        /\ \A f \in OutMsgs :
              call.env.present[f] =>
                 /\ call.env.readOk[f]
                 /\ call.env.writeOk[f]
                 /\ disk[Append(call.path, f)] = BlobData(f)

\* C10: a DownloadActionResult whose digest is malformed, whose cache lookup
\* fails or finds no result returns an error, leaves the disk as it was and
\* performs no disk operation; the directory is only cleaned after a
\* successful lookup.
C10_NoResultNoCleaning ==
    [][(call.op = None /\ call'.op = "DownloadActionResult") =>
         /\ (NewFromString(call'.digest).err # None \/ call'.env.cache # "hit") =>
               /\ ret'.err # None
               /\ disk' = disk
               /\ \A i \in 1..Len(events') : events'[i].kind # "disk"
         /\ \A i \in 1..Len(events') :
               events'[i].op = "RemoveAll" =>
                  /\ call'.env.cache = "hit"
                  /\ \E j \in 1..(i - 1) : events'[j].op = "CheckActionCache"]_vars

\* A lookup that found no result, on a directory that holds an old file.
C10_Witness ==
    /\ call.op = "DownloadActionResult"
    /\ NewFromString(call.digest).err = None
    /\ call.env.cache = "nil"
    /\ ret.err # None
    /\ disk = OldFiles

\* C3: the chunks next() produced since the chunker was created or reset
\* start at offset 0 (at the offset of the last seek otherwise), are
\* contiguous with strictly increasing offsets, are each at most chunkSize
\* long, end exactly at totalSize once the chunker is exhausted and not
\* before; a next() on an exhausted chunker fails with ChunkerExhausted
\* and produces nothing.
C3_ChunkSequence ==
    /\ [](chunker.state = "open" =>
           /\ chunker.chunkSize > 0
           /\ Len(chunks) > 0 => chunks[1].offset = chunker.start
           /\ \A i \in 1..(Len(chunks) - 1) :
                 /\ chunks[i + 1].offset = chunks[i].offset + chunks[i].length
                 /\ chunks[i + 1].offset > chunks[i].offset
           /\ \A i \in 1..Len(chunks) : chunks[i].length <= chunker.chunkSize
           /\ \A i \in 1..Len(chunks) :
                 (chunks[i].offset + chunks[i].length = chunker.totalSize)
                    <=> (i = Len(chunks) /\ chunker.reachedEOF)
           /\ chunker.reachedEOF => Len(chunks) > 0)
    /\ [][(chunker.state = "open" /\ chunker.reachedEOF /\ ChunkerNext) =>
            (chunkErr' = "ChunkerExhausted" /\ chunks' = chunks)]_vars

\* A blob of five bytes cut into chunks of two: three chunks, the last of
\* one byte, then a failed next().
C3_Witness ==
    /\ chunker.state = "open"
    /\ chunker.totalSize = 5 /\ chunker.chunkSize = 2 /\ chunker.start = 0
    /\ Len(chunks) = 3
    /\ chunks[3].length = 1
    /\ chunkErr = "ChunkerExhausted"

\* C2: get and computeOrGet report a hit only when the stored validator
\* equals the file's signature at the call; an entry that would be a hit
\* holds the digest of the file as it is now; and the digest a
\* computeOrGet returns is never that of content older than the content the
\* file had when the call began. (put is called with the digest and
\* validator the file had at one moment, possibly an earlier one.)
C2_NoStaleHit ==
    /\ \A w \in DOMAIN walkers :
          walkers[w].last.kind = "hit" => walkers[w].last.validator = walkers[w].last.sig
    /\ \A p \in DOMAIN entries :
          CacheGet(p).found => CacheGet(p).digest = DigestOf(files[p])
    /\ \A w \in DOMAIN walkers :
          walkers[w].last.kind \in {"hit", "computed"} =>
             walkers[w].last.digest.hash >= walkers[w].last.started

\* One walker had a hit on the first content; after the file was modified
\* the other walker's computeOrGet missed and computed the new digest,
\* while the entry of the old content was still in the cache when it began.
C2_Witness ==
    \E w1, w2 \in DOMAIN walkers :
        /\ walkers[w1].last.kind = "hit"
        /\ walkers[w1].last.digest.hash = 0
        /\ walkers[w2].last.kind = "computed"
        /\ walkers[w2].last.started = 1
        /\ walkers[w2].last.digest.hash = 1

\* The jobs whose RPC failed at least once.
JobsThatFailed == { j \in DOMAIN jobs : jobs[j].attempts > 0 \/ jobs[j].state = "failed" }

\* C1: no more than cas_concurrency jobs execute at once, and a job is only
\* admitted while fewer than cas_concurrency jobs are executing.
C1_ConcurrencyBound ==
    /\ [](Cardinality(Executing) <= CASConcurrency)
    /\ [][\A j \in DOMAIN jobs :
            (j \in DOMAIN jobs' /\ jobs[j].state = "queued" /\ jobs'[j].state = "executing")
               => Cardinality(Executing) < CASConcurrency]_vars

\* As many jobs execute as the limit allows while another one waits.
C1_Witness ==
    /\ Cardinality(Executing) = CASConcurrency
    /\ CASConcurrency = 2
    /\ \E j \in DOMAIN jobs : jobs[j].state = "queued"

C11_TempFileRemoved ==
    call.op = "DownloadBlob" =>
        /\ call.path = <<>> =>
              /\ TmpPath \notin DOMAIN disk
              /\ ret.err = None => ret.value = BlobData(call.digest)
        /\ call.path # <<>> =>
              /\ ret.value = <<>>
              /\ ret.err = None =>
                    (call.path \in DOMAIN disk /\ disk[call.path] = BlobData(call.digest))

\* The positions of the events of operation op in the trace of the call.
EventsOf(op) == { i \in 1..Len(events) : events[i].op = op }

\* The action, the command and the input path list of the call were read
\* without error.
InputsRead ==
    /\ NewFromString(call.digest).err = None
    /\ call.env.readAction /\ call.env.cmdDgOk /\ call.env.readCommand
    /\ call.env.rootDgOk /\ call.env.getTree = "ok"
    /\ FlattenTree(call.env.tree, <<>>).err = None

\* C12: a ReexecuteAction that read the action, the command and the input
\* paths downloads the input tree, into a fresh directory, exactly when
\* inputRoot is empty, and no call with a non-empty inputRoot downloads or
\* touches the disk; the run is started at most once, only after those reads
\* succeeded, on the caller's inputRoot or else on the fresh directory once it
\* is downloaded, with the sorted input paths; once the run was started the
\* call returns exactly the error of its result, and writes a message to the
\* error stream exactly when the status is neither success nor cache hit; a
\* call that never started the run returns an error.
C12_ReexecuteAction ==
    call.op = "ReexecuteAction" =>
        /\ InputsRead => (EventsOf("DownloadDirectory") # {} <=> call.path = <<>>)
        /\ EventsOf("DownloadDirectory") # {} => (InputsRead /\ call.path = <<>>)
        /\ call.path # <<>> => \A i \in 1..Len(events) : events[i].kind # "disk"
        /\ Cardinality(EventsOf("Run")) <= 1
        /\ EventsOf("Run") = {} =>
              (ret.err # None /\ \A i \in 1..Len(events) : events[i].kind # "stderr")
        /\ \A i \in EventsOf("Run") :
              /\ InputsRead
              /\ Cardinality({ j \in EventsOf("ReadProto") : j < i }) = 2
              /\ \E j \in EventsOf("GetDirectoryTree") : j < i
              /\ { events[i].inputs[k] : k \in 1..Len(events[i].inputs) }
                    = DOMAIN FlattenTree(call.env.tree, <<>>).outputs
              /\ \A k \in 1..(Len(events[i].inputs) - 1) :
                    StrLess(events[i].inputs[k], events[i].inputs[k + 1])
              /\ call.path # <<>> => events[i].execRoot = call.path
              /\ call.path = <<>> =>
                    /\ events[i].execRoot = FreshInputRoot
                    /\ call.env.dlOk
                    /\ \E j \in EventsOf("DownloadDirectory") : j < i
                    /\ Append(FreshInputRoot, "input") \in DOMAIN disk
              /\ ret.err = call.env.res.err
              /\ (call.env.res.status \notin {"Success", "CacheHit"})
                    <=> (\E j \in 1..Len(events) : j > i /\ events[j].kind = "stderr")
              /\ \A j \in 1..Len(events) :
                    events[j].kind = "stderr" =>
                       <<events[j]>> = StatusMessage(call.env.res.status)

\* A run on a freshly downloaded input tree that timed out with an error.
C12_Witness ==
    /\ call.op = "ReexecuteAction"
    /\ call.path = <<>>
    /\ EventsOf("DownloadDirectory") # {}
    /\ EventsOf("Run") # {}
    /\ call.env.res.status = "Timeout"
    /\ ret.err = "run error"
    /\ events[Len(events)].kind = "stderr"

====
